---------------------------- MODULE Spec2Model ----------------------------
(***************************************************************************)
(* A state-machine model of the KitNET anomaly-detection engine of         *)
(* walle/ids/kitsune.py: the orchestrator KitNET (process, train, execute, *)
(* __createAD__), the autoencoder dA and the incremental correlation       *)
(* clusterer corClust.                                                     *)
(*                                                                         *)
(* Numbers.  The program computes in double precision.  Here a real r is   *)
(* the integer r * SC (fixed point, SC units per 1.0), the logistic        *)
(* sigmoid is its piecewise-linear tangent approximation, and 1/epsilon of *)
(* the normalization guard is the gain EpsInv.  The FM accumulator is      *)
(* exact: its residuals are rationals with denominator dividing FS.        *)
(* NaN, which dA.execute produces from norm_min = +Inf, norm_max = -Inf,   *)
(* is a separate tag on a score.                                           *)
(*                                                                         *)
(* Configuration.  The engine is modelled with quantize = None,            *)
(* input_precision = None and the default learning_rate and hidden_ratio;  *)
(* __createAD__ always passes corruption_level = 0 and gracePeriod = 0.    *)
(*                                                                         *)
(* Encoding.  None is the empty sequence: FM_grace_period = None,          *)
(* feature_map = None (v), outputLayer = None and a missing snapshot file  *)
(* are << >>; a present optional value is a one-element sequence, except v *)
(* which is the partition itself (an engine with v = [] cannot be built:   *)
(* dA.__init__ divides by n_visible = 0).  Feature indices are 0-based as  *)
(* in the program; an observation x is a function on 0..n-1.               *)
(***************************************************************************)
EXTENDS Integers, Sequences, FiniteSets, TLC

(* ------------------------------ bounds --------------------------------- *)
\* largest number of features n of an engine
MaxN == 3
\* largest FM_grace_period passed to the constructor
MaxFM == 1
\* largest AD_grace_period passed to the constructor
MaxAD == 1
\* number of KitNET.execute calls after which the model stops
MaxExec == 2
\* set_params calls on an engine with a dictionary built by the host
MaxSet == 1
\* grace period of an autoencoder built by the host: 0..MaxGrace
MaxGrace == 2
\* train calls on an autoencoder called on its own
MaxTrain == 3
\* features of a clusterer called on its own: 2..MaxLeaves
MaxLeaves == 4
\* fixed-point units per 1.0
SC == 100

(* ----------------------------- arithmetic ------------------------------ *)
None == << >>

Max2(a, b) == IF a >= b THEN a ELSE b

Min2(a, b) == IF a <= b THEN a ELSE b

\* a numpy array indexed from 1: the sequence s, every element computed once
Array(s) == s \o << >>

\* a numpy array indexed from 0: the function f, every element computed once
Array0(f) == f @@ << >>

RECURSIVE SumSeq(_)
SumSeq(s) == IF s = << >> THEN 0 ELSE Head(s) + SumSeq(Tail(s))

RECURSIVE Lcm1(_, _)
\* least common multiple of 1..k, from the accumulated multiple acc
Lcm1(k, acc) ==
    IF k <= 1 THEN acc
    ELSE Lcm1(k - 1, CHOOSE l \in 1..(acc * k) :
                        /\ l % acc = 0 /\ l % k = 0
                        /\ \A l2 \in 1..(l - 1) : ~(l2 % acc = 0 /\ l2 % k = 0))

\* denominator of the FM residuals: FM.N never exceeds the learning period + 1
FS == Lcm1(Max2(MaxFM, MaxAD) + 1, 1)

RECURSIVE IsqrtBetween(_, _, _)
IsqrtBetween(k, lo, hi) ==
    IF hi - lo <= 1 THEN lo
    ELSE LET mid == (lo + hi) \div 2
         IN  IF mid * mid <= k THEN IsqrtBetween(k, mid, hi)
                               ELSE IsqrtBetween(k, lo, mid)

\* np.sqrt on a non-negative fixed-point square
Isqrt(k) == IsqrtBetween(k, 0, Min2(k, 46339) + 1)

\* sigmoid(t) = 1 / (1 + exp(-t)), as its tangent at 0 clipped to [0, 1]
sigmoid(t) == Max2(0, Min2(SC, (SC \div 2) + (t \div 4)))

(* ------------------------------ dA ------------------------------------- *)
\* np.Inf
Inf == 1000000
\* learning_rate = 0.1 = 1 / LrDen
LrDen == 10
\* hidden_ratio = 0.75 = HrNum / HrDen
HrNum == 3
HrDen == 4
\* 1 / 0.0000000000000001, the gain of the normalization guard
EpsInv == 10
\* seed of np.random.RandomState
Seed == 1234

RECURSIVE RngDraw(_, _)
\* the k-th draw of the generator seeded with s (a linear congruential one)
RngDraw(s, k) == IF k = 0 THEN s ELSE RngDraw((s * 75 + 74) % 65537, k - 1)

\* rng.uniform(low = -a, high = a), a = 1 / n_visible, k-th draw
RngUniform(nv, k) ==
    LET a == SC \div nv
    IN  (RngDraw(Seed, k) % (2 * a + 1)) - a

\* dA.__init__ with the dA_params of __createAD__; id is the identity of the
\* object allocated
dA_init(nv, normalize, id) ==
    LET nh == (nv * HrNum + HrDen - 1) \div HrDen
    IN  [ id          |-> id,
          n_visible   |-> nv,
          n_hidden    |-> nh,
          gracePeriod |-> 0,
          normalize   |-> normalize,
          norm_max    |-> Array([i \in 1..nv |-> -Inf]),
          norm_min    |-> Array([i \in 1..nv |-> Inf]),
          n           |-> 0,
          W           |-> Array([i \in 1..nv |-> Array([j \in 1..nh |-> RngUniform(nv, (i - 1) * nh + j)])]),
          hbias       |-> Array([j \in 1..nh |-> 0]),
          vbias       |-> Array([i \in 1..nv |-> 0]) ]

\* the largest magnitude of a fixed-point number: a real beyond it is Huge
Huge == 100 * SC

Saturate(t) == Max2(-Huge, Min2(Huge, t))

\* (x - norm_min) / (norm_max - norm_min + 0.0000000000000001)
Normalize01(x, nmin, nmax) ==
    Array([i \in 1..Len(x) |->
        IF nmax[i] = nmin[i] THEN Saturate((x[i] - nmin[i]) * EpsInv)
        ELSE Saturate(((x[i] - nmin[i]) * SC) \div (nmax[i] - nmin[i]))])

\* sigmoid(np.dot(input, W) + hbias)
get_hidden_values(a, input) ==
    Array([j \in 1..a.n_hidden |->
        sigmoid((SumSeq(Array([i \in 1..a.n_visible |-> input[i] * a.W[i][j]])) \div SC)
                + a.hbias[j])])

\* sigmoid(np.dot(hidden, W.T) + vbias)
get_reconstructed_input(a, hidden) ==
    Array([i \in 1..a.n_visible |->
        sigmoid((SumSeq(Array([j \in 1..a.n_hidden |-> hidden[j] * a.W[i][j]])) \div SC)
                + a.vbias[i])])

\* np.sqrt(np.mean(L ** 2))
Rmse(L) == Isqrt(SumSeq(Array([i \in 1..Len(L) |-> L[i] * L[i]])) \div Len(L))

\* dA.train(x): the autoencoder after the step and the returned error.
\* Each intermediate of the method is the argument of the step that follows,
\* in the order of the source.
dA_train(a, x0) ==
    LET nv == a.n_visible
        nh == a.n_hidden
        Update(nmax, nmin, x, y, L_h2, L_h1, L_W) ==
            [ ae   |-> [a EXCEPT
                          !.n = a.n + 1,
                          !.norm_max = nmax,
                          !.norm_min = nmin,
                          !.W = Array([i \in 1..nv |-> Array([j \in 1..nh |->
                                    a.W[i][j] + (L_W[i][j] \div LrDen)])]),
                          !.hbias = Array([j \in 1..nh |-> a.hbias[j] + (L_h1[j] \div LrDen)]),
                          !.vbias = Array([i \in 1..nv |-> a.vbias[i] + (L_h2[i] \div LrDen)])],
              rmse |-> Rmse(L_h2) ]
        Gradient(nmax, nmin, x, y, L_h2, L_h1) ==
            Update(nmax, nmin, x, y, L_h2, L_h1,
                   Array([i \in 1..nv |-> Array([j \in 1..nh |->
                       (x[i] * L_h1[j] + L_h2[i] * y[j]) \div SC])]))
        Hidden(nmax, nmin, x, y, L_h2) ==
            Gradient(nmax, nmin, x, y, L_h2,
                     Array([j \in 1..nh |->
                        ((((SumSeq(Array([i \in 1..nv |-> L_h2[i] * a.W[i][j]])) \div SC)
                           * y[j]) \div SC) * (SC - y[j])) \div SC]))
        Visible(nmax, nmin, x, y, z) ==
            Hidden(nmax, nmin, x, y, Array([i \in 1..nv |-> x[i] - z[i]]))
        Decode(nmax, nmin, x, y) ==
            Visible(nmax, nmin, x, y, get_reconstructed_input(a, y))
        Encode(nmax, nmin, x) ==
            Decode(nmax, nmin, x, get_hidden_values(a, x))
        Norms(nmax, nmin) ==
            Encode(nmax, nmin,
                   IF a.normalize THEN Normalize01(x0, nmin, nmax) ELSE x0)
    IN  Norms(IF a.normalize
              THEN Array([i \in 1..nv |-> IF x0[i] > a.norm_max[i] THEN x0[i] ELSE a.norm_max[i]])
              ELSE a.norm_max,
              IF a.normalize
              THEN Array([i \in 1..nv |-> IF x0[i] < a.norm_min[i] THEN x0[i] ELSE a.norm_min[i]])
              ELSE a.norm_min)

\* dA.reconstruct(x)
reconstruct(a, x) ==
    LET Decode(y) == get_reconstructed_input(a, y)
    IN  Decode(get_hidden_values(a, x))

\* a score that is a number, and the NaN score
Score(val) == [nan |-> FALSE, val |-> val]

NaN == [nan |-> TRUE, val |-> 0]

\* dA.execute without the test of the grace period
dA_execute_nograce(a, x0, xnan) ==
    IF xnan \/ (a.normalize /\ \E i \in 1..a.n_visible : a.norm_min[i] = Inf)
    THEN NaN
    ELSE LET Error(x, z) ==
                 [nan |-> FALSE,
                  val |-> Rmse(Array([i \in 1..a.n_visible |-> x[i] - z[i]]))]
             Normalized(x) == Error(x, reconstruct(a, x))
         IN  Normalized(IF a.normalize
                        THEN Normalize01(x0, a.norm_min, a.norm_max) ELSE x0)

\* dA.execute(x): the returned score; the method assigns to no attribute of
\* the autoencoder.  The score is NaN when x carries a NaN (xnan) or when the
\* norms are still +Inf and -Inf, which they are until the first train.
dA_execute(a, x0, xnan) ==
    IF a.n < a.gracePeriod THEN Score(0)
    ELSE IF xnan \/ (a.normalize /\ \E i \in 1..a.n_visible : a.norm_min[i] = Inf)
         THEN NaN
         ELSE LET Error(x, z) ==
                      [nan |-> FALSE,
                       val |-> Rmse(Array([i \in 1..a.n_visible |-> x[i] - z[i]]))]
                  Normalized(x) == Error(x, reconstruct(a, x))
              IN  Normalized(IF a.normalize
                             THEN Normalize01(x0, a.norm_min, a.norm_max) ELSE x0)

(* ---------------------------- corClust --------------------------------- *)
\* corClust.__init__(n)
corClust_init(n) ==
    [ N    |-> 0,
      c    |-> Array0([i \in 0..(n - 1) |-> 0]),
      c_r  |-> Array0([i \in 0..(n - 1) |-> 0]),
      c_rs |-> Array0([i \in 0..(n - 1) |-> 0]),
      C    |-> Array0([i \in 0..(n - 1) |-> Array0([j \in 0..(n - 1) |-> 0])]) ]

\* corClust.update(x); c_r is kept times FS, c_rs and C times FS * FS
corClust_update(fm, x) ==
    LET Accumulate(N1, c1, c_rt) ==
            [ N    |-> N1,
              c    |-> c1,
              c_r  |-> Array0([i \in DOMAIN fm.c |-> fm.c_r[i] + c_rt[i]]),
              c_rs |-> Array0([i \in DOMAIN fm.c |-> fm.c_rs[i] + c_rt[i] * c_rt[i]]),
              C    |-> Array0([i \in DOMAIN fm.c |-> Array0([j \in DOMAIN fm.c |->
                           fm.C[i][j] + c_rt[i] * c_rt[j]])]) ]
        Residual(N1, c1) ==
            Accumulate(N1, c1,
                       Array0([i \in DOMAIN fm.c |-> FS * x[i] - ((c1[i] * FS) \div N1)]))
    IN  Residual(fm.N + 1, Array0([i \in DOMAIN fm.c |-> fm.c[i] + x[i]]))

RECURSIVE LinkExt(_, _, _)
\* the linkage matrices that extend Z: row i merges two live clusters
\* a < b into the new cluster n + i
LinkExt(Z, alive, n) ==
    IF Len(Z) = n - 1 THEN {Z}
    ELSE UNION { LinkExt(Append(Z, p), (alive \ {p[1], p[2]}) \cup {n + Len(Z)}, n) :
                   p \in {q \in alive \X alive : q[1] < q[2]} }

\* linkage(D[np.triu_indices(n, 1)]): scipy's single linkage is library
\* code, and corrDist() only computes its argument D from FM without
\* assigning to FM; the result is any linkage matrix over the leaves 0..n-1,
\* each row naming the smaller cluster id first, as scipy labels them
linkage(n) == LinkExt(<< >>, 0..(n - 1), n)

\* to_tree(Z): node id < n is a leaf, node n + i has the children of row i
get_left(Z, n, id) == Z[id - n + 1][1]

get_right(Z, n, id) == Z[id - n + 1][2]

RECURSIVE count(_, _, _)
count(Z, n, id) ==
    IF id < n THEN 1
    ELSE count(Z, n, get_left(Z, n, id)) + count(Z, n, get_right(Z, n, id))

RECURSIVE pre_order(_, _, _)
pre_order(Z, n, id) ==
    IF id < n THEN <<id>>
    ELSE pre_order(Z, n, get_left(Z, n, id)) \o pre_order(Z, n, get_right(Z, n, id))

RECURSIVE breakClust_rightfirst(_, _, _, _)
\* __breakClust__ that descends into the right branch before the left
breakClust_rightfirst(Z, n, dendro, maxClust) ==
    IF count(Z, n, dendro) <= maxClust THEN << pre_order(Z, n, dendro) >>
    ELSE breakClust_rightfirst(Z, n, get_right(Z, n, dendro), maxClust)
         \o breakClust_rightfirst(Z, n, get_left(Z, n, dendro), maxClust)

RECURSIVE breakClust(_, _, _, _)
\* corClust.__breakClust__(dendro, maxClust)
breakClust(Z, n, dendro, maxClust) ==
    IF count(Z, n, dendro) <= maxClust THEN << pre_order(Z, n, dendro) >>
    ELSE breakClust(Z, n, get_left(Z, n, dendro), maxClust)
         \o breakClust(Z, n, get_right(Z, n, dendro), maxClust)

\* cluster with the two clamp values exchanged
cluster_swapclamp(Z, n, maxClust) ==
    LET m1 == IF maxClust < 1 THEN n ELSE maxClust
        m2 == IF m1 > n THEN 1 ELSE m1
    IN  breakClust(Z, n, 2 * n - 2, m2)

\* corClust.cluster(maxClust) on the dendrogram of the linkage matrix Z
cluster(Z, n, maxClust) ==
    LET m1 == IF maxClust < 1 THEN 1 ELSE maxClust
        m2 == IF m1 > n THEN n ELSE m1
    IN  breakClust(Z, n, 2 * n - 2, m2)

(* ------------------------------ KitNET --------------------------------- *)
VARIABLES
    self,       \* the object under call: the KitNET object with its attributes
                \* and what has been called on it; in SpecDA a dA, in
                \* SpecCluster a corClust with the dendrogram of its features
    norm_file,  \* the file at norm_params_path: None, or <<the pickled dictionary>>
    last,       \* the last call: its handler, branch, return value and exception
    peer        \* a second KitNET object of the same process: None, or <<the object>>

vars == <<self, norm_file, last, peer>>

\* KitNET.__createAD__(): one dA per cluster appended to ensembleLayer, then
\* the output dA; every dA allocated gets the next object identity
createAD(k) ==
    [k EXCEPT
        !.ensembleLayer = k.ensembleLayer \o
            Array([a \in 1..Len(k.v) |-> dA_init(Len(k.v[a]), k.normalize, k.h_allocs + a)]),
        !.outputLayer = << dA_init(Len(k.v), k.normalize, k.h_allocs + Len(k.v) + 1) >>,
        !.h_allocs = k.h_allocs + Len(k.v) + 1,
        !.h_createAD_calls = k.h_createAD_calls + 1]

\* the default model_path, "kitsune.pkl", as its name and its suffix
DefaultModelPath == << "kitsune", ".pkl" >>

\* model_path.replace(".pkl", "_norm_params.pkl")
NormParamsPath(model_path) ==
    [i \in 1..Len(model_path) |->
        IF model_path[i] = ".pkl" THEN "_norm_params.pkl" ELSE model_path[i]]

\* KitNET.__init__ with the other arguments at their defaults
KitNET_init(n, max_autoencoder_size, FM_grace_period, AD_grace_period, feature_map, normalize) ==
    LET k0 == [ AD_grace_period |-> AD_grace_period,
                FM_grace_period |-> IF FM_grace_period = None THEN AD_grace_period
                                    ELSE FM_grace_period[1],
                m               |-> IF max_autoencoder_size <= 0 THEN 1
                                    ELSE max_autoencoder_size,
                n               |-> n,
                normalize       |-> normalize,
                n_trained       |-> 0,
                n_executed      |-> 0,
                v               |-> feature_map,
                ensembleLayer   |-> << >>,
                outputLayer     |-> None,
                model_path      |-> DefaultModelPath,
                norm_params_path |-> NormParamsPath(DefaultModelPath),
                FM              |-> corClust_init(n),
                \* history of the object, not attributes of it
                h_feature_map      |-> feature_map,
                h_FM_arg           |-> FM_grace_period,
                h_allocs           |-> 0,
                h_createAD_calls   |-> 0,
                h_cluster_calls    |-> 0,
                h_N_at_cluster     |-> None,
                h_S1_steps         |-> 0 ]
    IN  IF k0.v = None THEN k0 ELSE createAD(k0)

\* x.all(): every component is non-zero
np_all(x) == \A i \in DOMAIN x : x[i] # 0

\* a Python bool compared with an int counts as 1 or 0
BoolAsInt(b) == IF b THEN 1 ELSE 0

\* the test of process: x.all() == -1
IsSkip(x) == BoolAsInt(np_all(x)) = -1

\* the test with >= for >
InExecuteMode_ge(k) == k.n_trained >= k.FM_grace_period + k.AD_grace_period

\* the test of process: n_trained > FM_grace_period + AD_grace_period
InExecuteMode(k) == k.n_trained > k.FM_grace_period + k.AD_grace_period

\* the same test with < for <=
InFMTrainMode_lt(k) == k.n_trained < k.FM_grace_period /\ k.v = None

\* the test without its second conjunct
InFMTrainMode_anyv(k) == k.n_trained <= k.FM_grace_period

\* the test of train: n_trained <= FM_grace_period and v is None
InFMTrainMode(k) == k.n_trained <= k.FM_grace_period /\ k.v = None

\* the test with <= for ==
AtFMTransition_le(k) == k.n_trained <= k.FM_grace_period

\* the test of train: n_trained == FM_grace_period
AtFMTransition(k) == k.n_trained = k.FM_grace_period

\* x[v[a]]: the sub-instance of autoencoder a, in fixed point
SubInstance(x, cl) == Array([i \in 1..Len(cl) |-> SC * x[cl[i]]])

\* norm_params with norm_min stored under the norm_max keys as well
NormParams_minonly(v, ens, out) ==
    [ ens    |-> [f \in {v[a][1] : a \in 1..Len(ens)} |->
                    LET a == CHOOSE a \in 1..Len(ens) :
                                /\ v[a][1] = f
                                /\ \A b \in (a + 1)..Len(ens) : v[b][1] # f
                    IN  [norm_min |-> ens[a].norm_min, norm_max |-> ens[a].norm_min]],
      output |-> [norm_min |-> out.norm_min, norm_max |-> out.norm_min] ]

\* the norm_params dictionary of train: a later cluster with the same first
\* index overwrites the entry of an earlier one
NormParams(v, ens, out) ==
    [ ens    |-> [f \in {v[a][1] : a \in 1..Len(ens)} |->
                    LET a == CHOOSE a \in 1..Len(ens) :
                                /\ v[a][1] = f
                                /\ \A b \in (a + 1)..Len(ens) : v[b][1] # f
                    IN  [norm_min |-> ens[a].norm_min, norm_max |-> ens[a].norm_max]],
      output |-> [norm_min |-> out.norm_min, norm_max |-> out.norm_max] ]

\* the S0 branch of train: FM.update, and at the transition FM.cluster and
\* __createAD__; Z is the linkage matrix scipy returns
trainFM(k, x, Z) ==
    LET Updated(k1) ==
            IF AtFMTransition(k1)
            THEN createAD([k1 EXCEPT !.v = cluster(Z, k1.n, k1.m),
                                     !.h_cluster_calls = k1.h_cluster_calls + 1,
                                     !.h_N_at_cluster = << k1.FM.N >>])
            ELSE k1
    IN  Updated([k EXCEPT !.FM = corClust_update(k.FM, x)])

\* the S1 branch without the training of the output dA
trainAD_ensembleonly(k, x) ==
    [k EXCEPT !.ensembleLayer =
                 Array([a \in 1..Len(k.ensembleLayer) |->
                          dA_train(k.ensembleLayer[a], SubInstance(x, k.v[a])).ae]),
              !.h_S1_steps = k.h_S1_steps + 1]

\* the S1 branch of train: every ensemble dA, then the output dA
trainAD(k, x) ==
    LET Output(t, o) ==
            [k EXCEPT !.ensembleLayer = Array([a \in 1..Len(k.ensembleLayer) |-> t[a].ae]),
                      !.outputLayer = << o.ae >>,
                      !.h_S1_steps = k.h_S1_steps + 1]
        Ensemble(t) ==
            Output(t, dA_train(k.outputLayer[1],
                               Array([a \in 1..Len(k.ensembleLayer) |-> t[a].rmse])))
    IN  Ensemble(Array([a \in 1..Len(k.ensembleLayer) |->
                    dA_train(k.ensembleLayer[a], SubInstance(x, k.v[a]))]))

\* train without its last statement, n_trained += 1
train_nocount(k, x, Z) ==
    IF InFMTrainMode(k)
    THEN [ self |-> trainFM(k, x, Z), write |-> None, branch |-> "S0",
           raised |-> "none" ]
    ELSE LET Done(k1) ==
                 [ self   |-> k1,
                   write  |-> << NormParams(k1.v, k1.ensembleLayer, k1.outputLayer[1]) >>,
                   branch |-> "S1",
                   raised |-> "none" ]
         IN  Done(trainAD(k, x))

\* KitNET.train(x): the object after the call, the dictionary written to
\* norm_params_path (None: no write), the branch taken and the exception
train(k, x, Z) ==
    IF InFMTrainMode(k)
    THEN LET Done(k1) ==
                 [ self   |-> [k1 EXCEPT !.n_trained = k1.n_trained + 1],
                   write  |-> None,
                   branch |-> IF k1.v = None THEN "S0" ELSE "S0->S1",
                   raised |-> "none" ]
         IN  Done(trainFM(k, x, Z))
    ELSE IF k.outputLayer = None
         \* self.outputLayer.train on None
         THEN [ self |-> k, write |-> None, branch |-> "S1", raised |-> "AttributeError" ]
         ELSE LET Done(k1) ==
                      [ self   |-> [k1 EXCEPT !.n_trained = k1.n_trained + 1],
                        write  |-> << NormParams(k1.v, k1.ensembleLayer, k1.outputLayer[1]) >>,
                        branch |-> "S1",
                        raised |-> "none" ]
              IN  Done(trainAD(k, x))

\* execute that counts the call before it tests v
execute_countfirst(k, x) ==
    IF k.v = None
    THEN [ self |-> [k EXCEPT !.n_executed = k.n_executed + 1],
           ret |-> Score(0), raised |-> "RuntimeError" ]
    ELSE [ self |-> [k EXCEPT !.n_executed = k.n_executed + 1],
           ret |-> Score(0), raised |-> "none" ]

\* execute that lets every autoencoder learn from x as train does
execute_learning(k, x) ==
    IF k.v = None
    THEN [ self |-> k, ret |-> Score(0), raised |-> "RuntimeError" ]
    ELSE LET Output(k1) ==
                 [ self |-> [k1 EXCEPT !.n_executed = k.n_executed + 1,
                                       !.h_S1_steps = k.h_S1_steps],
                   ret |-> Score(0), raised |-> "none" ]
         IN  Output(trainAD(k, x))

\* dA.get_params()
dA_get_params(a) == [ W |-> a.W, hbias |-> a.hbias, vbias |-> a.vbias ]

\* dA.set_params that takes hbias from the "vbias" entry
dA_set_params_vbias(a, new_param) ==
    [a EXCEPT !.W = new_param.W, !.hbias = new_param.vbias, !.vbias = new_param.vbias]

\* dA.set_params(new_param)
dA_set_params(a, new_param) ==
    [a EXCEPT !.W = new_param.W, !.hbias = new_param.hbias, !.vbias = new_param.vbias]

\* KitNET.get_params(): the returned dictionary and the exception
get_params(k) ==
    IF k.outputLayer = None
    \* self.outputLayer.get_params on None
    THEN [ ret |-> None, raised |-> "AttributeError" ]
    ELSE [ ret |-> << [ ensemble |-> Array([i \in 1..Len(k.ensembleLayer) |->
                                              dA_get_params(k.ensembleLayer[i])]),
                        output   |-> dA_get_params(k.outputLayer[1]) ] >>,
           raised |-> "none" ]

\* KitNET.set_params(new_param): the object after the call and the
\* exception; the loop runs over the entries of new_param["ensemble"] and
\* has assigned to the autoencoders before it when an index fails
set_params(k, new_param) ==
    LET Replaced(k1) ==
            IF Len(new_param.ensemble) > Len(k.ensembleLayer)
            \* self.ensembleLayer[i] beyond the list
            THEN [ self |-> k1, raised |-> "IndexError" ]
            ELSE IF k.outputLayer = None
                 \* self.outputLayer.set_params on None
                 THEN [ self |-> k1, raised |-> "AttributeError" ]
                 ELSE [ self |-> [k1 EXCEPT !.outputLayer =
                                     << dA_set_params(k.outputLayer[1], new_param.output) >>],
                        raised |-> "none" ]
    IN  Replaced([k EXCEPT !.ensembleLayer =
                     Array([i \in 1..Len(k.ensembleLayer) |->
                              IF i <= Len(new_param.ensemble)
                              THEN dA_set_params(k.ensembleLayer[i], new_param.ensemble[i])
                              ELSE k.ensembleLayer[i]])])

\* KitNET.execute(x): the object after the call, the score and the exception
execute(k, x) ==
    IF k.v = None
    THEN [ self |-> k, ret |-> Score(0), raised |-> "RuntimeError" ]
    ELSE LET Output(S_l1) ==
                 [ self   |-> [k EXCEPT !.n_executed = k.n_executed + 1],
                   ret    |-> dA_execute(k.outputLayer[1],
                                         Array([a \in 1..Len(S_l1) |-> S_l1[a].val]),
                                         \E a \in 1..Len(S_l1) : S_l1[a].nan),
                   raised |-> "none" ]
         IN  Output(Array([a \in 1..Len(k.ensembleLayer) |->
                       dA_execute(k.ensembleLayer[a], SubInstance(x, k.v[a]), FALSE)]))

\* KitNET.process(x)
process(k, x, Z) ==
    IF IsSkip(x)
    THEN [ self |-> k, write |-> None, handled |-> "skip", branch |-> "skip",
           ret |-> Score(0), raised |-> "none" ]
    ELSE IF InExecuteMode(k)
         THEN LET Return(r) ==
                      [ self |-> r.self, write |-> None, handled |-> "execute",
                        branch |-> "S2", ret |-> r.ret, raised |-> r.raised ]
              IN  Return(execute(k, x))
         ELSE LET Return(r) ==
                      [ self |-> r.self, write |-> r.write, handled |-> "train",
                        branch |-> r.branch, ret |-> Score(0), raised |-> r.raised ]
              IN  Return(train(k, x, Z))

(* --------------------------- the environment --------------------------- *)
\* the observations fed to an engine of n features: the all -1 vector,
\* whose components are all non-zero, and the ramp 0, 1, ..., n - 1
Inputs(n) ==
    { [i \in 0..(n - 1) |-> -1], [i \in 0..(n - 1) |-> i] }

\* the observation every component of which equals -1
AllMinusOne(x) == \A i \in DOMAIN x : x[i] = -1

RECURSIVE Iota(_, _)
\* the indices lo, lo + 1, ..., hi as a list
Iota(lo, hi) == IF lo > hi THEN << >> ELSE <<lo>> \o Iota(lo + 1, hi)

\* the feature maps supplied to the constructor: one cluster of all
\* features, one cluster per feature, the last feature ahead of the others
FeatureMaps(n) ==
    { << Iota(0, n - 1) >>,
      [a \in 1..n |-> << a - 1 >>],
      << << n - 1 >>, Iota(0, n - 2) >> }

\* the max_autoencoder_size arguments: below 1, inside 1..n, above n
AutoencoderSizes == {0, 2, MaxN + 1}
\* the default max_autoencoder_size
DefaultSize == 10

\* the FM_grace_period arguments: None (the default) or a number
FMGraceArgs == {None} \cup { <<g>> : g \in 0..MaxFM }

\* the dendrograms FM.cluster may be given in the call that is about to run
Dendrograms(k) ==
    IF InFMTrainMode(k) /\ AtFMTransition(k) THEN linkage(k.n) ELSE {None}

Init ==
    /\ \E n \in 2..MaxN, g \in FMGraceArgs, ad \in 0..MaxAD, normalize \in BOOLEAN :
          \/ \E m \in AutoencoderSizes :
                self = KitNET_init(n, m, g, ad, None, normalize)
          \/ \E fmap \in FeatureMaps(n) :
                self = KitNET_init(n, DefaultSize, g, ad, fmap, normalize)
    /\ norm_file = None
    /\ peer = None
    /\ last = [ op |-> "__init__", x |-> None, handled |-> "none", branch |-> "none",
                ret |-> Score(0), raised |-> "none", nonskip |-> 0, calls |-> 0,
                writes |-> 0, sets |-> 0 ]

\* a call process(x) by the host pipeline
Process ==
    /\ self.n_executed < MaxExec
    /\ \E x \in Inputs(self.n), Z \in Dendrograms(self) :
          LET Return(r) ==
                /\ self' = r.self
                /\ norm_file' = IF r.write = None THEN norm_file ELSE r.write
                /\ last' = [ op |-> "process", x |-> x, handled |-> r.handled,
                             branch |-> r.branch, ret |-> r.ret, raised |-> r.raised,
                             nonskip |-> last.nonskip + (IF AllMinusOne(x) THEN 0 ELSE 1),
                             calls |-> last.calls + 1,
                             writes |-> last.writes + (IF r.write = None THEN 0 ELSE 1),
                             sets |-> last.sets ]
                /\ UNCHANGED peer
          IN  Return(process(self, x, Z))

\* a direct call execute(x) by the host
Execute ==
    /\ self.n_executed < MaxExec
    /\ \E x \in Inputs(self.n) :
          LET Return(r) ==
                /\ self' = r.self
                /\ norm_file' = norm_file
                /\ last' = [ op |-> "execute", x |-> x, handled |-> "execute",
                             branch |-> "direct", ret |-> r.ret, raised |-> r.raised,
                             nonskip |-> last.nonskip, calls |-> last.calls,
                             writes |-> last.writes, sets |-> last.sets ]
                /\ UNCHANGED peer
          IN  Return(execute(self, x))

\* the engine driven through process only
Next == Process

Spec == Init /\ [][Next]_vars

\* the engine driven through process and through direct execute calls
NextAPI == Process \/ Execute

SpecAPI == Init /\ [][NextAPI]_vars

(* ------------------------------ claims --------------------------------- *)
\* every autoencoder of the engine k: the ensemble layer, then the output layer
Autoencoders(k) == k.ensembleLayer \o k.outputLayer

\* the object identities of the autoencoders of k
Instances(k) == { Autoencoders(k)[a].id : a \in 1..Len(Autoencoders(k)) }

\* the step is a call process(x)
ProcessCall == last'.op = "process" /\ last'.calls = last.calls + 1

\* the engine was built without a feature_map
Learned == self.h_feature_map = None

\* C1: a call process(x) with every component of x equal to -1 returns 0 and
\* leaves the engine and the persisted normalization snapshot unchanged.
C1_SkipSentinel ==
    [][ (ProcessCall /\ AllMinusOne(last'.x))
        => (last'.ret = Score(0) /\ self' = self /\ norm_file' = norm_file) ]_vars

\* C2: on an engine without a preset partition, the non-skip process call
\* number k is handled by train and returns 0 when k <= FM_grace + AD_grace,
\* and call number FM_grace + AD_grace + 1 is the first handled by execute.
C2_ExecuteBoundary ==
    (Learned /\ last.op = "process" /\ ~AllMinusOne(last.x))
    => IF last.nonskip <= self.FM_grace_period + self.AD_grace_period
       THEN last.handled = "train" /\ last.ret = Score(0) /\ self.n_executed = 0
       ELSE /\ last.handled = "execute"
            /\ (last.nonskip = self.FM_grace_period + self.AD_grace_period + 1
                => self.n_executed = 1)

\* C3: n_trained never decreases; a process call handled by train adds 1 to
\* n_trained and n_executed is 0 before and after it; a process call handled
\* by execute adds 1 to n_executed and leaves n_trained alone; after a call
\* handled by execute no call is handled by train; every call is handled by
\* one of the two and raises nothing.
C3_LifecycleCounters ==
    [][ ProcessCall =>
          /\ self'.n_trained >= self.n_trained
          /\ last'.raised = "none"
          /\ ~AllMinusOne(last'.x) => last'.handled \in {"train", "execute"}
          /\ last'.handled = "train" =>
                /\ self'.n_trained = self.n_trained + 1
                /\ self.n_executed = 0 /\ self'.n_executed = 0
          /\ last'.handled = "execute" =>
                /\ self'.n_executed = self.n_executed + 1
                /\ self'.n_trained = self.n_trained
          /\ last.handled = "execute" => last'.handled # "train" ]_vars

C3_Witness ==
    /\ last.handled = "execute" /\ self.n_executed = 2
    /\ self.FM_grace_period >= 1 /\ self.AD_grace_period >= 1
    /\ self.n_trained = self.FM_grace_period + self.AD_grace_period + 1

\* C4: without a preset partition FM.cluster is called once, in the call that
\* observes n_trained = FM_grace, the autoencoders are allocated once, in that
\* same call, and afterwards v and the autoencoder instances never change;
\* with a preset partition FM.cluster is never called and v stays the
\* supplied partition.
C4_OneShotPartition ==
    [][ /\ self'.h_cluster_calls <= 1 /\ self'.h_createAD_calls <= 1
        /\ self'.h_cluster_calls # self.h_cluster_calls =>
              /\ Learned /\ self.n_trained = self.FM_grace_period
              /\ self'.h_createAD_calls = self.h_createAD_calls + 1
        /\ (Learned /\ self'.h_createAD_calls # self.h_createAD_calls) =>
              self'.h_cluster_calls = self.h_cluster_calls + 1
        /\ (Learned /\ self'.n_trained > self'.FM_grace_period) =>
              self'.h_cluster_calls = 1
        /\ self.v # None =>
              /\ self'.v = self.v
              /\ Instances(self') = Instances(self)
              /\ Cardinality(Instances(self')) = Len(self'.v) + 1
        /\ ~Learned =>
              /\ self'.h_cluster_calls = 0
              /\ self.v = self.h_feature_map /\ self'.v = self.h_feature_map ]_vars

C4_Witness ==
    /\ Learned /\ self.h_cluster_calls = 1 /\ Len(self.v) >= 2
    /\ self.n_executed >= 1 /\ self.FM_grace_period >= 1

\* C5: the feature mapping is learned from exactly FM_grace_period instances:
\* FM.N = FM_grace_period when FM.cluster is called, and FM.N keeps that value.
C5_FMGracePeriod ==
    self.h_N_at_cluster # None =>
        /\ self.h_N_at_cluster[1] = self.FM_grace_period
        /\ self.FM.N = self.FM_grace_period

\* C6: on an engine without a preset partition, the call that creates the
\* partition trains no autoencoder, and when the first call handled by
\* execute starts every autoencoder has been trained AD_grace_period times.
C6_ADGracePeriod ==
    [][ Learned =>
          /\ (self.v = None /\ self'.v # None) =>
                /\ Autoencoders(self') # << >>
                /\ \A a \in 1..Len(Autoencoders(self')) : Autoencoders(self')[a].n = 0
          /\ (ProcessCall /\ last'.handled = "execute" /\ self.n_executed = 0) =>
                /\ Len(Autoencoders(self)) = Len(self.v) + 1
                /\ \A a \in 1..Len(Autoencoders(self)) :
                      Autoencoders(self)[a].n = self.AD_grace_period ]_vars

C6_Witness ==
    /\ Learned /\ last.handled = "execute" /\ self.n_executed = 1
    /\ self.AD_grace_period >= 1 /\ Len(self.v) >= 2
    /\ \A a \in 1..Len(Autoencoders(self)) :
          Autoencoders(self)[a].n = self.AD_grace_period

\* C7: with a preset partition the autoencoders exist from construction on,
\* the first process call is an S1 step that trains all of them, and FM is
\* never updated: FM.N = 0 and c, c_r, c_rs, C are all zero in every state.
C7_PresetSkipsS0 ==
    ~Learned =>
        /\ Len(self.ensembleLayer) = Len(self.v) /\ self.outputLayer # None
        /\ self.FM = corClust_init(self.n)
        /\ last.calls = 1 =>
              /\ last.handled = "train" /\ last.branch = "S1"
              /\ \A a \in 1..Len(Autoencoders(self)) : Autoencoders(self)[a].n = 1

C7_Witness ==
    /\ ~Learned /\ last.calls = 1 /\ last.branch = "S1" /\ self.FM.N = 0
    /\ self.FM_grace_period >= 1 /\ Len(self.v) >= 2

\* C8: with a preset partition FM_grace counts as 0: the non-skip process
\* call number k is handled by train when k <= AD_grace, and by execute from
\* k = AD_grace + 1 on, whatever FM_grace_period is.
C8_PresetIgnoresFMGrace ==
    (~Learned /\ last.op = "process" /\ ~AllMinusOne(last.x))
    => IF last.nonskip <= self.AD_grace_period
       THEN last.handled = "train"
       ELSE last.handled = "execute"

\* C9: a direct call execute(x) while v is None raises an error and changes
\* nothing: n_executed, n_trained, FM, v and all the rest are as before.
C9_ExecutePrecondition ==
    [][ (last'.op = "execute" /\ last'.branch = "direct" /\ self.v = None)
        => /\ last'.raised = "RuntimeError"
           /\ self' = self
           /\ norm_file' = norm_file ]_vars

C9_Witness ==
    /\ last.op = "execute" /\ last.raised = "RuntimeError"
    /\ self.v = None /\ self.n_trained >= 1 /\ self.FM.N >= 1

\* C10: a process call handled by execute changes n_executed only: n_trained,
\* v, FM, every autoencoder and the normalization snapshot stay as they are.
C10_ExecuteReadOnly ==
    [][ (ProcessCall /\ last'.handled = "execute")
        => /\ self' = [self EXCEPT !.n_executed = self.n_executed + 1]
           /\ norm_file' = norm_file ]_vars

C10_Witness ==
    /\ last.op = "process" /\ last.handled = "execute" /\ self.n_executed = 1
    /\ norm_file # None /\ ~last.ret.nan /\ last.ret.val > 0


\* C19: for non-negative FM and AD grace periods, an engine driven only
\* through process never reaches the missing-feature-map error: in every
\* reachable state n_trained > FM_grace_period implies that v is not None, so
\* whenever process routes to execute the partition and the autoencoders
\* exist and no call raises
C19_NoMissingMap ==
    /\ self.n_trained > self.FM_grace_period =>
          /\ self.v # None
          /\ self.outputLayer # None
          /\ Len(self.ensembleLayer) = Len(self.v)
    /\ last.raised = "none"
    /\ last.handled = "execute" => self.v # None /\ self.outputLayer # None

\* an engine that learned its map has been routed to execute
C19_Witness ==
    /\ Learned
    /\ last.handled = "execute"
    /\ self.n_executed >= 1
    /\ self.n_trained > self.FM_grace_period
    /\ self.v # None

\* C20: v is None exactly when the ensemble layer is empty and the output
\* autoencoder is absent; once v exists, the ensemble has len(v)
\* autoencoders, autoencoder a has n_visible = len(v[a]), the output
\* autoencoder has n_visible = len(v), and all autoencoders have the same n
\* (n_seen), the number of S1 training steps so far
C20_Structure ==
    /\ self.v = None <=> (self.ensembleLayer = << >> /\ self.outputLayer = None)
    /\ self.v # None =>
          /\ Len(self.ensembleLayer) = Len(self.v)
          /\ \A a \in 1..Len(self.v) :
                self.ensembleLayer[a].n_visible = Len(self.v[a])
          /\ self.outputLayer # None
          /\ self.outputLayer[1].n_visible = Len(self.v)
          /\ \A a \in 1..Len(Autoencoders(self)) :
                Autoencoders(self)[a].n = self.h_S1_steps
          \* the S1 steps are the calls that wrote the normalization file
          /\ self.h_S1_steps = last.writes

\* an engine that learned a map of clusters of different sizes has made S1
\* training steps and an execute
C20_Witness ==
    /\ Learned
    /\ self.v # None
    /\ Len(self.v) >= 2
    /\ \E a, b \in 1..Len(self.v) : Len(self.v[a]) # Len(self.v[b])
    /\ self.h_S1_steps >= 1
    /\ self.n_executed >= 1

(* ------------------- corClust.cluster called directly ------------------- *)
\* corClust.n, the number of features the statistics are kept over
corClust_n(fm) == Cardinality(DOMAIN fm.c)

\* the maxClust arguments: below 1, inside 1..n and above n
MaxClustArgs == (-1)..(MaxLeaves + 1)

\* h_Z is the linkage matrix scipy computes from the statistics of the
\* clusterer: cluster() does not assign to them, so every call sees the same
InitCluster ==
    /\ \E n \in 2..MaxLeaves :
          /\ self = corClust_init(n)
          /\ \E Z \in linkage(n) :
                last = [ op |-> "__init__", maxClust |-> 0, h_Z |-> Z, ret |-> None ]
    /\ norm_file = None
    /\ peer = None

\* FM.cluster(maxClust)
Cluster ==
    \E maxClust \in MaxClustArgs :
        /\ last' = [ op |-> "cluster", maxClust |-> maxClust, h_Z |-> last.h_Z,
                     ret |-> cluster(last.h_Z, corClust_n(self), maxClust) ]
        /\ UNCHANGED <<self, norm_file, peer>>

NextCluster == Cluster

SpecCluster == InitCluster /\ [][NextCluster]_vars

\* C11: for every n >= 2, every dendrogram and every integer maxClust
\* (values below 1 and above n included), the map FM.cluster(maxClust)
\* returns is a partition of 0..n-1: every index is in exactly one cluster at
\* exactly one position, no cluster is empty, and no cluster has more than
\* max(maxClust, 1) elements
C11_ClusterPartition ==
    last.op = "cluster" =>
        LET map == last.ret
            Places(i) == { p \in (1..Len(map)) \X (1..corClust_n(self)) :
                             p[2] <= Len(map[p[1]]) /\ map[p[1]][p[2]] = i }
        IN  /\ Len(map) >= 1
            /\ \A i \in 0..(corClust_n(self) - 1) : Cardinality(Places(i)) = 1
            /\ \A a \in 1..Len(map) :
                  /\ Len(map[a]) >= 1
                  /\ Len(map[a]) <= Max2(last.maxClust, 1)
                  /\ \A j \in 1..Len(map[a]) : map[a][j] \in 0..(corClust_n(self) - 1)

\* a clamped call has happened: maxClust below 1 on at least three features
\* returned one cluster per feature
C11_Witness ==
    /\ last.op = "cluster"
    /\ last.maxClust < 1
    /\ corClust_n(self) >= 3
    /\ Len(last.ret) = corClust_n(self)

(* ------------------------ the normalization file ------------------------ *)
\* the file holds, under the first index of every cluster of k, the live
\* norm_min and norm_max of that cluster's autoencoder, one entry per
\* cluster, and under "output" those of the output autoencoder
SnapshotIsLive(file, k) ==
    /\ file # None
    /\ k.v # None
    /\ DOMAIN file[1].ens = { k.v[a][1] : a \in 1..Len(k.v) }
    /\ Cardinality(DOMAIN file[1].ens) = Len(k.v)
    /\ Len(k.ensembleLayer) = Len(k.v)
    /\ \A a \in 1..Len(k.v) :
          /\ file[1].ens[k.v[a][1]].norm_min = k.ensembleLayer[a].norm_min
          /\ file[1].ens[k.v[a][1]].norm_max = k.ensembleLayer[a].norm_max
    /\ file[1].output.norm_min = k.outputLayer[1].norm_min
    /\ file[1].output.norm_max = k.outputLayer[1].norm_max

\* C12: the normalization file is written exactly once by every S1 training
\* step and by no S0 step and no execute; every write holds norm_min and
\* norm_max of each ensemble autoencoder under the first index of its cluster
\* (one distinct entry per cluster) and those of the output autoencoder; so
\* after every process call from the first S1 step on, S2 included, the file
\* equals the live norm_min and norm_max of every autoencoder
C12_NormSnapshot ==
    [][ProcessCall =>
          /\ last'.writes = last.writes + (IF last'.branch = "S1" THEN 1 ELSE 0)
          /\ last'.branch # "S1" => norm_file' = norm_file
          /\ self.h_S1_steps = 0 /\ last'.branch # "S1" => norm_file' = None
          /\ last'.branch = "S1" => SnapshotIsLive(norm_file', self')
          /\ self'.h_S1_steps >= 1 => SnapshotIsLive(norm_file', self')]_vars

\* an execute has run on a normalizing engine of several clusters after the
\* file was written, and the file holds the ranges learned in training
C12_Witness ==
    /\ last.branch = "S2"
    /\ last.writes >= 1
    /\ self.normalize
    /\ Len(self.v) >= 2
    /\ SnapshotIsLive(norm_file, self)
    /\ \E a \in 1..Len(self.v) : self.ensembleLayer[a].norm_min # self.ensembleLayer[a].norm_max

(* -------------------- two engines in the same process -------------------- *)
\* process calls made on the second engine
MaxPeer == 2

\* the model_path arguments: the default and a path of the host's own
ModelPaths == { DefaultModelPath, << "ids", ".pkl" >> }

\* the constructor called with a model_path argument
WithModelPath(k, model_path) ==
    [k EXCEPT !.model_path = model_path,
              !.norm_params_path = NormParamsPath(model_path)]

\* A (self) and B (peer) constructed with the same arguments
InitTwo ==
    /\ \E n \in 2..MaxN, g \in FMGraceArgs, ad \in 0..MaxAD, path \in ModelPaths :
          \E fmap \in {None} \cup FeatureMaps(n) :
             /\ self = WithModelPath(KitNET_init(n, DefaultSize, g, ad, fmap, TRUE), path)
             /\ peer = << WithModelPath(KitNET_init(n, DefaultSize, g, ad, fmap, TRUE), path) >>
    /\ norm_file = None
    /\ last = [ op |-> "__init__", x |-> None, handled |-> "none", branch |-> "none",
                ret |-> Score(0), raised |-> "none", nonskip |-> 0, calls |-> 0,
                writes |-> 0, sets |-> 0 ]

\* B.process(x): norm_file is the file at A's norm_params_path, which B
\* opens for writing when its own norm_params_path names the same file
PeerProcess ==
    /\ peer # None
    /\ peer[1].n_trained + peer[1].n_executed < MaxPeer
    /\ \E x \in Inputs(peer[1].n), Z \in Dendrograms(peer[1]) :
          LET Return(r) ==
                /\ peer' = << r.self >>
                /\ norm_file' = IF r.write # None
                                   /\ peer[1].norm_params_path = self.norm_params_path
                                THEN r.write ELSE norm_file
                /\ last' = [ op |-> "peer.process", x |-> x, handled |-> r.handled,
                             branch |-> r.branch, ret |-> r.ret, raised |-> r.raised,
                             nonskip |-> last.nonskip, calls |-> last.calls,
                             writes |-> last.writes, sets |-> last.sets ]
                /\ UNCHANGED self
          IN  Return(process(peer[1], x, Z))

\* the calls on the two engines in any interleaving
NextTwo == Process \/ PeerProcess

SpecTwo == InitTwo /\ [][NextTwo]_vars

\* a process call on B
PeerCall == last'.op = "peer.process" /\ peer' # peer

\* C13: for two engines A and B constructed with the same arguments (the
\* defaults included) and any interleaving of process calls, no call on B
\* changes anything of A: neither A's attributes nor the normalization
\* snapshot A has persisted (A has written it once last.writes >= 1)
C13_InstanceIndependence ==
    [][PeerCall => /\ self' = self
                   /\ last.writes >= 1 => norm_file' = norm_file]_vars

RECURSIVE Flatten(_)
\* the clusters of a map put one after the other
Flatten(map) == IF map = << >> THEN << >> ELSE Head(map) \o Flatten(Tail(map))

\* the list is in ascending order
Ascending(cl) == \A i \in 1..(Len(cl) - 1) : cl[i] < cl[i + 1]

\* C17 as stated: every cluster FM.cluster emits lists its feature indices in
\* ascending order, for every dendrogram and every maxClust, and the
\* clusters appear in the order of the left-then-right descent
C17_Original ==
    last.op = "cluster" =>
        /\ \A a \in 1..Len(last.ret) : Ascending(last.ret[a])
        /\ Flatten(last.ret)
             = pre_order(last.h_Z, corClust_n(self), 2 * corClust_n(self) - 2)

\* C17 amended: every cluster FM.cluster emits lists its feature indices in
\* the left-then-right leaf order of its dendrogram subtree, which need not
\* be ascending, and the clusters appear in the order of the left-then-right
\* descent: the clusters put one after the other are the leaves of the whole
\* dendrogram from left to right
C17_EmissionOrder ==
    last.op = "cluster" =>
        Flatten(last.ret)
          = pre_order(last.h_Z, corClust_n(self), 2 * corClust_n(self) - 2)

\* a call has emitted several clusters, one of which is not ascending
C17_Witness ==
    /\ last.op = "cluster"
    /\ Len(last.ret) >= 2
    /\ \E a \in 1..Len(last.ret) : ~Ascending(last.ret[a])

(* --------------------- one autoencoder called directly ------------------- *)
\* the instances fed to an autoencoder of nv inputs, in fixed point: all
\* -1, the ramp 1, 2, ..., nv, and all 3
DAInputs(nv) ==
    { [i \in 1..nv |-> -SC], [i \in 1..nv |-> i * SC], [i \in 1..nv |-> 3 * SC] }

\* dA(dA_params(..., gracePeriod = g, ...)) built by the host
dA_host(nv, normalize, g) == [dA_init(nv, normalize, 1) EXCEPT !.gracePeriod = g]

\* the autoencoder is one the host built with a grace period of its own, or
\* one that __createAD__ built for an engine; h_min and h_max are the least
\* and the greatest component seen by train so far (None before the first)
InitDA ==
    /\ \E normalize \in BOOLEAN :
          \/ \E nv \in 1..MaxN, g \in 0..MaxGrace :
                /\ self = dA_host(nv, normalize, g)
                /\ last = [ op |-> "__init__", x |-> None, ret |-> Score(0), trains |-> 0,
                            h_min |-> None, h_max |-> None, h_owner |-> "host" ]
          \/ \E n \in 2..MaxN :
                \E fmap \in FeatureMaps(n) :
                   \E a \in 1..(Len(fmap) + 1) :
                      /\ self = Autoencoders(
                                   KitNET_init(n, DefaultSize, None, 0, fmap, normalize))[a]
                      /\ last = [ op |-> "__init__", x |-> None, ret |-> Score(0),
                                  trains |-> 0, h_min |-> None, h_max |-> None,
                                  h_owner |-> "KitNET" ]
    /\ norm_file = None
    /\ peer = None

\* dA.train(x) that leaves norm_max as it was
DATrain_stalemax ==
    /\ last.trains < MaxTrain
    /\ \E x \in DAInputs(self.n_visible) :
          LET Return(r) ==
                /\ self' = [r.ae EXCEPT !.norm_max = self.norm_max]
                /\ last' = [ op |-> "train", x |-> x, ret |-> Score(r.rmse),
                             trains |-> last.trains + 1,
                             h_min |-> IF last.h_min = None THEN x
                                       ELSE [i \in 1..Len(x) |-> Min2(last.h_min[i], x[i])],
                             h_max |-> IF last.h_max = None THEN x
                                       ELSE [i \in 1..Len(x) |-> Max2(last.h_max[i], x[i])],
                             h_owner |-> last.h_owner ]
                /\ UNCHANGED <<norm_file, peer>>
          IN  Return(dA_train(self, x))

\* dA.train(x)
DATrain ==
    /\ last.trains < MaxTrain
    /\ \E x \in DAInputs(self.n_visible) :
          LET Return(r) ==
                /\ self' = r.ae
                /\ last' = [ op |-> "train", x |-> x, ret |-> Score(r.rmse),
                             trains |-> last.trains + 1,
                             h_min |-> IF last.h_min = None THEN x
                                       ELSE [i \in 1..Len(x) |-> Min2(last.h_min[i], x[i])],
                             h_max |-> IF last.h_max = None THEN x
                                       ELSE [i \in 1..Len(x) |-> Max2(last.h_max[i], x[i])],
                             h_owner |-> last.h_owner ]
                /\ UNCHANGED <<norm_file, peer>>
          IN  Return(dA_train(self, x))

\* dA.execute(x)
DAExecute ==
    \E x \in DAInputs(self.n_visible) :
        /\ last' = [ op |-> "execute", x |-> x, ret |-> dA_execute(self, x, FALSE),
                     trains |-> last.trains, h_min |-> last.h_min,
                     h_max |-> last.h_max, h_owner |-> last.h_owner ]
        /\ UNCHANGED <<self, norm_file, peer>>

\* train and execute calls in any interleaving
NextDA == DATrain \/ DAExecute

SpecDA == InitDA /\ [][NextDA]_vars

\* C14: for an autoencoder with normalization enabled, after K >= 1 train
\* calls on x_1..x_K, interleaved with execute calls in any way, every
\* component i has norm_min[i] <= min_k x_k[i] and norm_max[i] >= max_k x_k[i]
\* (so norm_min[i] <= norm_max[i]); and execute changes neither norm_min nor
\* norm_max
C14_NormRange ==
    [][self.normalize =>
          /\ last'.trains >= 1 =>
                \A i \in 1..self.n_visible :
                   /\ self'.norm_min[i] <= last'.h_min[i]
                   /\ self'.norm_max[i] >= last'.h_max[i]
                   /\ self'.norm_min[i] <= self'.norm_max[i]
          /\ last'.op = "execute" =>
                /\ self'.norm_min = self.norm_min
                /\ self'.norm_max = self.norm_max]_vars

\* a normalizing autoencoder has been trained on different instances, with an
\* execute in between, and executed again: its range is wider than a point
C14_Witness ==
    /\ self.normalize
    /\ last.op = "execute"
    /\ last.trains >= 2
    /\ self.n_visible >= 2
    /\ \A i \in 1..self.n_visible :
          /\ self.norm_min[i] < self.norm_max[i]
          /\ self.norm_min[i] = last.h_min[i]
          /\ self.norm_max[i] = last.h_max[i]

\* C16: for one autoencoder with grace period g: every execute made while
\* fewer than g train calls have been made returns 0.0 and changes nothing;
\* n (n_seen) grows by exactly 1 in every train and is not changed by
\* execute, so it is the number of train calls; and the autoencoders that
\* __createAD__ builds have g = 0, so their execute never takes the grace
\* return
C16_AutoencoderGrace ==
    [][/\ last'.op = "execute" /\ last.trains < self.gracePeriod =>
             /\ last'.ret = Score(0)
             /\ self' = self
       /\ last'.trains = last.trains + 1 => self'.n = self.n + 1
       /\ last'.op = "execute" => self'.n = self.n
       /\ self'.n = last'.trains
       /\ last.h_owner = "KitNET" =>
             /\ self.gracePeriod = 0
             /\ ~(self.n < self.gracePeriod)]_vars

\* an execute inside the grace period, after a train call, has returned 0.0
\* on an instance the autoencoder does not reconstruct exactly
C16_Witness ==
    /\ last.op = "execute"
    /\ last.trains >= 1
    /\ last.trains < self.gracePeriod
    /\ last.ret = Score(0)
    /\ dA_execute([self EXCEPT !.gracePeriod = 0], last.x, FALSE) # Score(0)

(* ------------------- get_params and set_params calls -------------------- *)
\* the engines the parameter calls are made on: learned and preset maps
InitParams ==
    /\ \E n \in 2..MaxN, ad \in 0..MaxAD :
          \/ self = KitNET_init(n, 2, << 0 >>, ad, None, TRUE)
          \/ \E fmap \in FeatureMaps(n) :
                self = KitNET_init(n, DefaultSize, << 0 >>, ad, fmap, TRUE)
    /\ norm_file = None
    /\ peer = None
    /\ last = [ op |-> "__init__", x |-> None, handled |-> "none", branch |-> "none",
                ret |-> Score(0), raised |-> "none", nonskip |-> 0, calls |-> 0,
                writes |-> 0, sets |-> 0 ]

\* the dictionaries the host builds for an engine k: len entries under
\* "ensemble", each of fresh all-zero arrays of the shapes of the autoencoder
\* it is meant for (those of the last autoencoder for an entry beyond the
\* list, of the output autoencoder when the list is empty)
ZeroParams(a) ==
    [ W     |-> [i \in 1..a.n_visible |-> [j \in 1..a.n_hidden |-> 0]],
      hbias |-> [j \in 1..a.n_hidden |-> 0],
      vbias |-> [i \in 1..a.n_visible |-> 0] ]

HostParams(k, len) ==
    [ ensemble |-> [i \in 1..len |->
                      ZeroParams(IF k.ensembleLayer = << >> THEN dA_init(1, TRUE, 0)
                                 ELSE k.ensembleLayer[Min2(i, Len(k.ensembleLayer))])],
      output   |-> ZeroParams(IF k.outputLayer = None THEN dA_init(1, TRUE, 0)
                              ELSE k.outputLayer[1]) ]

\* set_params(get_params()) as one call of the host
set_get_params(k) ==
    LET Got(g) == IF g.raised # "none" THEN [ self |-> k, raised |-> g.raised ]
                  ELSE set_params(k, g.ret[1])
    IN  Got(get_params(k))

RoundTrip ==
    \E r \in { set_get_params(self) } :
        /\ self' = r.self
        /\ last' = [last EXCEPT !.op = "round_trip", !.x = None, !.handled = "none",
                                !.branch = "none", !.ret = Score(0), !.raised = r.raised]
        /\ UNCHANGED <<norm_file, peer>>

\* set_params(new_param) with a dictionary of the host: as many entries as
\* the ensemble has autoencoders, one fewer, or one more
SetParams ==
    /\ last.sets < MaxSet
    /\ \E len \in (Len(self.ensembleLayer) - 1)..(Len(self.ensembleLayer) + 1) :
          /\ len >= 0
          /\ \E r \in { set_params(self, HostParams(self, len)) } :
                /\ self' = r.self
                /\ last' = [last EXCEPT !.op = "set_params", !.x = HostParams(self, len),
                                        !.handled = "none", !.branch = "none",
                                        !.ret = Score(0), !.raised = r.raised,
                                        !.sets = last.sets + 1]
                /\ UNCHANGED <<norm_file, peer>>

NextParams == Process \/ RoundTrip \/ SetParams

SpecParams == InitParams /\ [][NextParams]_vars

\* C15: on an engine whose autoencoders exist, set_params(get_params())
\* raises nothing, leaves W, hbias and vbias of every autoencoder equal to
\* what they were and changes nothing else (norms, n of the autoencoders,
\* n_trained, n_executed, v, the normalization file), so an execute after it
\* returns the score it would have returned before it
C15_ParamRoundTrip ==
    [][last'.op = "round_trip" /\ self.outputLayer # None =>
          /\ last'.raised = "none"
          /\ \A a \in 1..Len(Autoencoders(self)) :
                dA_get_params(Autoencoders(self')[a]) = dA_get_params(Autoencoders(self)[a])
          /\ self' = self
          /\ norm_file' = norm_file
          /\ \A x \in Inputs(self.n) : execute(self', x) = execute(self, x)]_vars

\* the round trip has run on a trained engine of several autoencoders whose
\* hbias and vbias differ
C15_Witness ==
    /\ last.op = "round_trip"
    /\ last.raised = "none"
    /\ self.h_S1_steps >= 1
    /\ Len(self.ensembleLayer) >= 2
    /\ \E a \in 1..Len(self.ensembleLayer) :
          self.ensembleLayer[a].hbias # self.ensembleLayer[a].vbias

\* C18: set_params with a dictionary whose "ensemble" list is shorter or
\* longer than the ensemble fails with an exception, and when the call
\* fails no autoencoder has had its W, hbias or vbias replaced
C18_ShapeMismatchFatal ==
    [][last'.op = "set_params" /\ last'.sets = last.sets + 1
       /\ Len(last'.x.ensemble) # Len(self.ensembleLayer) =>
          /\ last'.raised # "none"
          /\ \A a \in 1..Len(Autoencoders(self)) :
                dA_get_params(Autoencoders(self')[a]) = dA_get_params(Autoencoders(self)[a])]_vars
=============================================================================
